---- MODULE Spec2Model ----
(***************************************************************************)
(* A model of the CVMatcher front-end: the resume upload control, the      *)
(* job-description form, the shared ResumePreview context and the          *)
(* dashboard page.                                                         *)
(*                                                                         *)
(* JavaScript strings are modelled as sequences of one-character strings,  *)
(* so trimming, URI encoding and query parsing are computed character by   *)
(* character.  React state setters are modelled as assignments to the      *)
(* state variable they belong to.  An awaited call is a request record in  *)
(* inflight; the continuation after the await is a separate action that    *)
(* removes the record.                                                     *)
(***************************************************************************)
EXTENDS Integers, Sequences, FiniteSets, Bags

(***************************************************************************)
(* Bounds of the model.                                                    *)
(***************************************************************************)
\* longest text typed into the textarea
MaxTextLen == 2
\* requests awaited at the same time
MaxInFlight == 2
\* scores are the fractions 0/ScoreDenom .. ScoreDenom/ScoreDenom
ScoreDenom == 8
\* longest resume identifier taken through the link to the jobs page
MaxIdLen == 3

(***************************************************************************)
(* Values.                                                                 *)
(***************************************************************************)
\* JavaScript null (and an absent query parameter)
NULL == [null |-> TRUE]

\* JavaScript undefined for an optional number, and a present number
Undefined == [def |-> FALSE, num |-> 0]

Num(n) == [def |-> TRUE, num |-> n]

\* the characters of a job description: white space and a letter
TextChars == {" ", "a"}

IsWhiteSpace(c) == c \in {" ", "\t", "\n"}

RECURSIVE SeqsUpTo(_, _)
SeqsUpTo(S, n) ==
    IF n = 0 THEN {<<>>}
    ELSE LET shorter == SeqsUpTo(S, n - 1)
         IN  shorter \cup {Append(s, c) : s \in {t \in shorter : Len(t) = n - 1}, c \in S}

Texts == SeqsUpTo(TextChars, MaxTextLen)

\* String.prototype.trim: drops the leading and the trailing white space
RECURSIVE TrimStart(_)
TrimStart(s) ==
    IF s # <<>> /\ IsWhiteSpace(Head(s)) THEN TrimStart(Tail(s)) ELSE s

RECURSIVE TrimEnd(_)
TrimEnd(s) ==
    IF s # <<>> /\ IsWhiteSpace(s[Len(s)]) THEN TrimEnd(SubSeq(s, 1, Len(s) - 1)) ELSE s

\* the text used as it is, without trim()
TrimNothing(s) == s

Trim(s) == TrimEnd(TrimStart(s))

\* a JavaScript string that may also be null or undefined
Str(s) == [str |-> s]

\* JavaScript truthiness of a string-or-null value: !v is ~Truthy(v)
Truthy(v) == v # NULL /\ v # Str(<<>>)

\* the job identifiers the backend answers uploadJobDescriptions with
JobIds == {Str(<<"j", "1">>), Str(<<"j", "2">>)}

\* the messages of the errors the API calls reject with
ErrorMessages == {"HTTP 500", "Failed to fetch"}

\* flash messages of the form (the source's texts are Chinese)
EmptyTextMessage == "job description must not be empty"

MissingResumeIdMessage == "missing resume id"

SubmitSuccessMessage == "job description submitted"

Flash(type, message) == [type |-> type, message |-> message]

Scores == 0 .. ScoreDenom

OptScores == {Undefined} \cup {Num(n) : n \in Scores}

\* a response of improveResume: ImprovedResult, reduced to its scores
ImprovedResult(original, new) == [data |-> [original_score |-> original, new_score |-> new]]

\* every response over the scores of the model
ImprovedResults == {ImprovedResult(o, n) : o \in OptScores, n \in OptScores}

\* the responses drawn where the scores themselves are not examined:
\* complete ones, and one lacking each score
PreviewSamples ==
    {ImprovedResult(Num(1), Num(ScoreDenom)), ImprovedResult(Num(ScoreDenom), Num(1)),
     ImprovedResult(Undefined, Num(1)), ImprovedResult(Num(1), Undefined)}

(***************************************************************************)
(* The resume upload control, FileUpload: its static options.              *)
(***************************************************************************)
PdfType == "application/pdf"

DocxType == "application/vnd.openxmlformats-officedocument.wordprocessingml.document"

DocType == "application/msword"

PngType == "image/png"

acceptedFileTypes == <<PdfType, DocxType>>

\* Array.prototype.join(','): the types with a comma between them
RECURSIVE Join(_)
Join(types) ==
    IF Len(types) = 0 THEN <<>>
    ELSE IF Len(types) = 1 THEN <<types[1]>>
    ELSE <<types[1], ",">> \o Join(Tail(types))

acceptString == Join(acceptedFileTypes)

\* a limit of 20MB
maxSizeTwentyMB == 20 * 1024 * 1024

\* 2MB
maxSize == 2 * 1024 * 1024

multiple == FALSE

\* the formats the upload page's text says are supported: PDF, DOC, DOCX
SupportedFormats == {PdfType, DocType, DocxType}

\* the size the upload page's text gives as the largest: 2 MB
SupportedMaxSize == 2 * 1024 * 1024

\* feedback messages of FileUpload (the source's texts are Chinese)
MissingIdFeedback == "uploaded but no resume id received"

UploadSuccessFeedback == "uploaded"

UnknownUploadError == "unknown error during upload"

\* the files a user may drop or select
FileTypes == {PdfType, DocxType, DocType, PngType}

FileSizes == {1024, 2097152, 2097153}

Files == [type : FileTypes, size : FileSizes]

\* the resume identifiers the backend issues
ResumeIds == {Str(<<"a">>), Str(<<"&", "+">>)}

\* identifiers made of a letter, the characters a query gives a meaning to,
\* and the characters of an escape sequence
IdChars == {"a", "&", "+", "=", "%", "2", "B", " "}

IdStrings == SeqsUpTo(IdChars, MaxIdLen)

\* the resume_id field of an upload response: absent, null, a number or a string
ResumeIdFields == {Undefined, NULL, Num(42), Str(<<>>)} \cup ResumeIds

UploadResponses == [resume_id : ResumeIdFields]

\* the typeof operator on a response field
TypeOf(v) ==
    IF "str" \in DOMAIN v THEN "string"
    ELSE IF "null" \in DOMAIN v THEN "object"
    ELSE IF v.def THEN "number"
    ELSE "undefined"

\* the error messages the upload hook reports to onUploadError
UploadErrorMessages == {"", "HTTP 500"}

(***************************************************************************)
(* encodeURIComponent and the parsing of the query string.                 *)
(***************************************************************************)
\* characters encodeURIComponent leaves as they are (those the model uses)
IsUnreserved(c) == c \in {"a", "j", "B", "1", "2", "-", "_", ".", "!", "~", "*", "'", "(", ")"}

\* the escape sequence of a reserved character
PercentEscape(c) ==
    CASE c = "&" -> <<"%", "2", "6">>
      [] c = "+" -> <<"%", "2", "B">>
      [] c = "=" -> <<"%", "3", "D">>
      [] c = "%" -> <<"%", "2", "5">>
      [] c = " " -> <<"%", "2", "0">>
      [] OTHER   -> <<"%", "3", "F">>

RECURSIVE encodeURIComponent(_)
encodeURIComponent(s) ==
    IF s = <<>> THEN <<>>
    ELSE (IF IsUnreserved(Head(s)) THEN <<Head(s)>> ELSE PercentEscape(Head(s)))
         \o encodeURIComponent(Tail(s))

\* the character an escape sequence stands for
PercentUnescape(h1, h2) ==
    CASE h1 = "2" /\ h2 = "6" -> "&"
      [] h1 = "2" /\ h2 = "B" -> "+"
      [] h1 = "3" /\ h2 = "D" -> "="
      [] h1 = "2" /\ h2 = "5" -> "%"
      [] h1 = "2" /\ h2 = "0" -> " "
      [] OTHER                -> "?"

IsHexDigit(c) == c \in {"0", "1", "2", "3", "4", "5", "6", "7", "8", "9",
                        "A", "B", "C", "D", "E", "F"}

\* URLSearchParams' decoding of a name or a value: + is a space, %XX a byte
RECURSIVE FormDecode(_)
FormDecode(s) ==
    IF s = <<>> THEN <<>>
    ELSE IF Head(s) = "+" THEN <<" ">> \o FormDecode(Tail(s))
    ELSE IF Head(s) = "%" /\ Len(s) >= 3 /\ IsHexDigit(s[2]) /\ IsHexDigit(s[3])
    THEN <<PercentUnescape(s[2], s[3])>> \o FormDecode(SubSeq(s, 4, Len(s)))
    ELSE <<Head(s)>> \o FormDecode(Tail(s))

\* the part of s before the first sep, and the part after it
Before(s, sep) ==
    IF \E i \in 1 .. Len(s) : s[i] = sep
    THEN SubSeq(s, 1, (CHOOSE i \in 1 .. Len(s) :
                          s[i] = sep /\ \A j \in 1 .. i - 1 : s[j] # sep) - 1)
    ELSE s

After(s, sep) ==
    IF \E i \in 1 .. Len(s) : s[i] = sep
    THEN SubSeq(s, (CHOOSE i \in 1 .. Len(s) :
                          s[i] = sep /\ \A j \in 1 .. i - 1 : s[j] # sep) + 1, Len(s))
    ELSE <<>>

\* URLSearchParams.get(name) on a query string: the first pair named name, or null
RECURSIVE SearchParamsGet(_, _)
SearchParamsGet(search, name) ==
    IF search = <<>> THEN NULL
    ELSE LET pair == Before(search, "&")
             rest == After(search, "&")
         IN  IF pair # <<>> /\ FormDecode(Before(pair, "=")) = name
             THEN Str(FormDecode(After(pair, "=")))
             ELSE SearchParamsGet(rest, name)

\* the name of the query parameter, r e s u m e _ i d
ResumeIdParam == <<"r", "e", "s", "u", "m", "e", "_", "i", "d">>

\* a URL: its path and its query string
Url(path, search) == [path |-> path, search |-> search]

\* a request: the awaited API call with its arguments
Request(call, args) == [call |-> call, args |-> args]

VARIABLES
    route,              \* the page shown: "resume", "jobs" or "dashboard"
    resumeId,           \* useSearchParams().get('resume_id') of the jobs page
    text,               \* useState('') of the form
    flash,              \* useState(null)
    submissionStatus,   \* useState('idle')
    improvementStatus,  \* useState('idle')
    jobId,              \* useState(null)
    inflight,           \* the bag of the API calls awaited by the handlers
    improvedData,       \* ResumePreviewProvider's useState(null)
    activeTab,          \* DashboardPage's useState('metrics')
    files,              \* useFileUpload's files
    errors,             \* useFileUpload's errors
    isUploadingGlobal,  \* useFileUpload's isUploadingGlobal
    uploadFeedback,     \* FileUpload's useState(null)
    href,               \* the value assigned to window.location.href, NULL if none
    blocked,            \* history: the check that made the last handler call return early
    lastUpload,         \* history: the latest uploadJobDescriptions that resolved, NULL if none
    lastPreview,        \* history: the latest response of improveResume since the load
    lastResumeId        \* history: the resume_id of the latest upload, NULL if none or failed

formVars == <<text, flash, submissionStatus, improvementStatus, jobId>>

uploadVars == <<files, errors, isUploadingGlobal, uploadFeedback, href>>

\* what the responses since the load have carried; blocked is set by every action
history == <<lastUpload, lastPreview, lastResumeId>>

vars == <<route, resumeId, text, flash, submissionStatus, improvementStatus, jobId,
          inflight, improvedData, activeTab, files, errors, isUploadingGlobal,
          uploadFeedback, href, blocked, lastUpload, lastPreview,
          lastResumeId>>

(***************************************************************************)
(* The job-description form, JobDescriptionUploadTextArea.                 *)
(***************************************************************************)
\* an onChange that also forgets the job id
handleChangeClearingJobId(value) ==
    /\ route = "jobs"
    /\ value # text
    /\ blocked' = "none"
    /\ text' = value
    /\ flash' = NULL
    /\ submissionStatus' = "idle"
    /\ jobId' = NULL
    /\ UNCHANGED <<history, route, resumeId, improvementStatus, inflight,
                   improvedData, activeTab, uploadVars>>

\* onChange of the textarea
handleChange(value) ==
    /\ route = "jobs"
    /\ value # text
    /\ blocked' = "none"
    /\ text' = value
    /\ flash' = NULL
    /\ submissionStatus' = IF submissionStatus # "idle" THEN "idle" ELSE submissionStatus
    /\ UNCHANGED <<history, route, resumeId, improvementStatus, jobId, inflight,
                   improvedData, activeTab, uploadVars>>

\* a submit that sets a job id of its own before the response
handleUploadOptimistic ==
    /\ route = "jobs"
    /\ LET trimmed == Trim(text)
       IN  IF trimmed = <<>>
           THEN /\ flash' = Flash("error", EmptyTextMessage)
                /\ blocked' = "emptyText"
                /\ UNCHANGED <<submissionStatus, inflight, jobId>>
           ELSE IF ~Truthy(resumeId)
           THEN /\ flash' = Flash("error", MissingResumeIdMessage)
                /\ blocked' = "missingResumeId"
                /\ UNCHANGED <<submissionStatus, inflight, jobId>>
           ELSE /\ BagCardinality(inflight) < MaxInFlight
                /\ submissionStatus' = "submitting"
                /\ jobId' = Str(<<"j", "1">>)
                /\ inflight' = inflight (+) SetToBag({Request("uploadJobDescriptions",
                       [job_descriptions |-> <<trimmed>>, resume_id |-> resumeId])})
                /\ blocked' = "none"
                /\ UNCHANGED flash
    /\ UNCHANGED <<history, route, resumeId, text, improvementStatus, improvedData,
                   activeTab, uploadVars>>

\* onSubmit of the form, up to the await of uploadJobDescriptions
handleUpload ==
    /\ route = "jobs"
    /\ LET trimmed == Trim(text)
       IN  IF trimmed = <<>>
           THEN /\ flash' = Flash("error", EmptyTextMessage)
                /\ blocked' = "emptyText"
                /\ UNCHANGED <<submissionStatus, inflight>>
           ELSE IF ~Truthy(resumeId)
           THEN /\ flash' = Flash("error", MissingResumeIdMessage)
                /\ blocked' = "missingResumeId"
                /\ UNCHANGED <<submissionStatus, inflight>>
           ELSE /\ BagCardinality(inflight) < MaxInFlight
                /\ submissionStatus' = "submitting"
                /\ inflight' = inflight (+) SetToBag({Request("uploadJobDescriptions",
                       [job_descriptions |-> <<trimmed>>, resume_id |-> resumeId])})
                /\ blocked' = "none"
                /\ UNCHANGED flash
    /\ UNCHANGED <<history, route, resumeId, text, improvementStatus, jobId, improvedData,
                   activeTab, uploadVars>>

\* a success path that makes up the job id in the browser
handleUploadResolvedLocalId(r, id) ==
    /\ r \in BagToSet(inflight)
    /\ blocked' = "none"
    /\ r.call = "uploadJobDescriptions"
    /\ inflight' = inflight (-) SetToBag({r})
    /\ jobId' = Str(<<"j", "0">>)
    /\ submissionStatus' = "success"
    /\ flash' = Flash("success", SubmitSuccessMessage)
    /\ lastUpload' = [request |-> r, response |-> id]
    /\ UNCHANGED <<lastPreview, lastResumeId, route, resumeId, text, improvementStatus, improvedData,
                   activeTab, uploadVars>>

\* handleUpload after the await: uploadJobDescriptions resolved with id
handleUploadResolved(r, id) ==
    /\ r \in BagToSet(inflight)
    /\ blocked' = "none"
    /\ r.call = "uploadJobDescriptions"
    /\ inflight' = inflight (-) SetToBag({r})
    /\ jobId' = id
    /\ submissionStatus' = "success"
    /\ flash' = Flash("success", SubmitSuccessMessage)
    /\ lastUpload' = [request |-> r, response |-> id]
    /\ UNCHANGED <<lastPreview, lastResumeId, route, resumeId, text, improvementStatus, improvedData,
                   activeTab, uploadVars>>

\* a catch of handleUpload that reports the error and calls uploadJobDescriptions again
handleUploadRejectedRetry(r, message) ==
    /\ blocked' = "none"
    /\ r \in BagToSet(inflight)
    /\ r.call = "uploadJobDescriptions"
    /\ inflight' = (inflight (-) SetToBag({r})) (+) SetToBag({r})
    /\ submissionStatus' = "submitting"
    /\ flash' = Flash("error", message)
    /\ UNCHANGED <<history, route, resumeId, text, improvementStatus, jobId,
                   improvedData, activeTab, uploadVars>>

\* handleUpload's catch: uploadJobDescriptions rejected with an Error
handleUploadRejected(r, message) ==
    /\ r \in BagToSet(inflight)
    /\ blocked' = "none"
    /\ r.call = "uploadJobDescriptions"
    /\ inflight' = inflight (-) SetToBag({r})
    /\ submissionStatus' = "error"
    /\ flash' = Flash("error", message)
    /\ UNCHANGED <<history, route, resumeId, text, improvementStatus, jobId, 
                   improvedData, activeTab, uploadVars>>

\* handleImprove without its test of jobId
handleImproveUnguarded ==
    /\ route = "jobs"
    /\ BagCardinality(inflight) < MaxInFlight
    /\ blocked' = "none"
    /\ improvementStatus' = "improving"
    /\ inflight' = inflight (+) SetToBag({Request("improveResume",
           [resume_id |-> resumeId, job_id |-> jobId])})
    /\ UNCHANGED <<history, route, resumeId, text, flash, submissionStatus, jobId, improvedData,
                   activeTab, uploadVars>>

\* onClick of the improve button, up to the await of improveResume
handleImprove ==
    /\ route = "jobs"
    /\ IF ~Truthy(jobId)
       THEN /\ blocked' = "missingJobId"
            /\ UNCHANGED <<improvementStatus, inflight>>
       ELSE /\ BagCardinality(inflight) < MaxInFlight
            /\ blocked' = "none"
            /\ improvementStatus' = "improving"
            /\ inflight' = inflight (+) SetToBag({Request("improveResume",
                   [resume_id |-> resumeId, job_id |-> jobId])})
    /\ UNCHANGED <<history, route, resumeId, text, flash, submissionStatus, jobId, improvedData,
                   activeTab, uploadVars>>

\* a success path that puts a placeholder, not the response, into the context
handleImproveResolvedPlaceholder(r, preview) ==
    /\ r \in BagToSet(inflight)
    /\ blocked' = "none"
    /\ r.call = "improveResume"
    /\ inflight' = inflight (-) SetToBag({r})
    /\ improvedData' = ImprovedResult(Num(0), Num(0))
    /\ route' = "dashboard"
    /\ lastPreview' = preview
    /\ UNCHANGED <<lastUpload, lastResumeId, resumeId, text, flash, submissionStatus,
                   improvementStatus, jobId,
                    activeTab, uploadVars>>

\* handleImprove after the await: improveResume resolved with preview
handleImproveResolved(r, preview) ==
    /\ r \in BagToSet(inflight)
    /\ blocked' = "none"
    /\ r.call = "improveResume"
    /\ inflight' = inflight (-) SetToBag({r})
    /\ improvedData' = preview
    /\ route' = "dashboard"
    /\ lastPreview' = preview
    /\ UNCHANGED <<lastUpload, lastResumeId, resumeId, text, flash, submissionStatus,
                   improvementStatus, jobId,
                    activeTab, uploadVars>>

\* a catch of handleImprove that sets the status and forgets the flash
handleImproveRejectedSilent(r, message) ==
    /\ blocked' = "none"
    /\ r \in BagToSet(inflight)
    /\ r.call = "improveResume"
    /\ inflight' = inflight (-) SetToBag({r})
    /\ improvementStatus' = "error"
    /\ UNCHANGED <<history, route, resumeId, text, flash, submissionStatus, jobId, improvedData,
                   activeTab, uploadVars>>

\* a catch of handleImprove that goes to the dashboard all the same
handleImproveRejectedNavigating(r, message) ==
    /\ r \in BagToSet(inflight)
    /\ blocked' = "none"
    /\ r.call = "improveResume"
    /\ inflight' = inflight (-) SetToBag({r})
    /\ improvementStatus' = "error"
    /\ flash' = Flash("error", message)
    /\ route' = "dashboard"
    /\ UNCHANGED <<history, resumeId, text, submissionStatus, jobId, improvedData,
                   activeTab, uploadVars>>

\* a catch of handleImprove that shows the error and leaves the status
handleImproveRejectedKeepsStatus(r, message) ==
    /\ r \in BagToSet(inflight)
    /\ blocked' = "none"
    /\ r.call = "improveResume"
    /\ inflight' = inflight (-) SetToBag({r})
    /\ flash' = Flash("error", message)
    /\ UNCHANGED <<history, route, resumeId, text, submissionStatus, improvementStatus,
                   jobId, improvedData, activeTab, uploadVars>>

\* handleImprove's catch: improveResume rejected with an Error
handleImproveRejected(r, message) ==
    /\ r \in BagToSet(inflight)
    /\ blocked' = "none"
    /\ r.call = "improveResume"
    /\ inflight' = inflight (-) SetToBag({r})
    /\ improvementStatus' = "error"
    /\ flash' = Flash("error", message)
    /\ UNCHANGED <<history, route, resumeId, text, submissionStatus, jobId,  improvedData,
                   activeTab, uploadVars>>

\* disabled of the submit button
isNextDisabled == Trim(text) = <<>> \/ submissionStatus = "submitting"

\* the improve button is rendered
ImproveButtonRendered == submissionStatus = "success" /\ Truthy(jobId)

\* disabled of the improve button
ImproveButtonDisabled == improvementStatus = "improving"

\* the user presses the submit button
SubmitClick == ~isNextDisabled /\ handleUpload

\* the user presses the improve button
ImproveClick == ImproveButtonRendered /\ ~ImproveButtonDisabled /\ handleImprove

(***************************************************************************)
(* The upload hook, useFileUpload, and FileUpload's callbacks.             *)
(***************************************************************************)
\* the types of an accept string: the entries between the commas
AcceptedTypes(accept) == {accept[i] : i \in {j \in 1 .. Len(accept) : accept[j] # ","}}

\* the hook's validation of a file against the options: an error message, or ""
validateFile(file, options) ==
    IF file.size > options.maxSize THEN "file exceeds the maximum size"
    ELSE IF file.type \notin AcceptedTypes(options.accept) THEN "file type not accepted"
    ELSE ""

\* the options FileUpload passes to useFileUpload
FileUploadOptions == [maxSize |-> maxSize, accept |-> acceptString, multiple |-> multiple]

currentFile == IF files = <<>> THEN NULL ELSE files[1]

\* a file is dropped on the drop zone or chosen in the file dialog:
\* the hook validates it and posts it to uploadUrl
addFiles(file) ==
    /\ route = "resume"
    /\ blocked' = "none"
    /\ ~isUploadingGlobal
    /\ LET error == validateFile(file, FileUploadOptions)
       IN  IF error # ""
           THEN /\ errors' = <<error>>
                /\ UNCHANGED <<files, isUploadingGlobal, inflight>>
           ELSE /\ BagCardinality(inflight) < MaxInFlight
                /\ errors' = <<>>
                /\ files' = <<file>>
                /\ isUploadingGlobal' = TRUE
                /\ inflight' = inflight (+) SetToBag({Request("upload", [file |-> file])})
    /\ UNCHANGED <<history, route, resumeId, formVars, improvedData, activeTab, uploadFeedback, href>>

\* onUploadSuccess testing only the type of resume_id, not that it is non-empty
onUploadSuccessAnyString(uploadedFile, response) ==
    LET data == response
        resume_id == IF TypeOf(data.resume_id) = "string" THEN data.resume_id ELSE Undefined
    IN  IF resume_id = Undefined
        THEN /\ uploadFeedback' = Flash("error", MissingIdFeedback)
             /\ UNCHANGED <<errors, href>>
        ELSE /\ uploadFeedback' = Flash("success", UploadSuccessFeedback)
             /\ errors' = <<>>
             /\ href' = Url("/jobs", ResumeIdParam \o <<"=">> \o
                                     encodeURIComponent(resume_id.str))

\* onUploadSuccess putting the identifier into the link as it is
onUploadSuccessUnencoded(uploadedFile, response) ==
    LET data == response
        resume_id == IF TypeOf(data.resume_id) = "string" THEN data.resume_id ELSE Undefined
    IN  IF ~(resume_id # Undefined /\ Truthy(resume_id))
        THEN /\ uploadFeedback' = Flash("error", MissingIdFeedback)
             /\ UNCHANGED <<errors, href>>
        ELSE /\ uploadFeedback' = Flash("success", UploadSuccessFeedback)
             /\ errors' = <<>>
             /\ href' = Url("/jobs", ResumeIdParam \o <<"=">> \o resume_id.str)

\* the callback FileUpload gives the hook for a successful upload
onUploadSuccess(uploadedFile, response) ==
    LET data == response
        resume_id == IF TypeOf(data.resume_id) = "string" THEN data.resume_id ELSE Undefined
    IN  IF ~(resume_id # Undefined /\ Truthy(resume_id))
        THEN /\ uploadFeedback' = Flash("error", MissingIdFeedback)
             /\ UNCHANGED <<errors, href>>
        ELSE /\ uploadFeedback' = Flash("success", UploadSuccessFeedback)
             /\ errors' = <<>>
             /\ href' = Url("/jobs", ResumeIdParam \o <<"=">> \o
                                     encodeURIComponent(resume_id.str))

\* the callback FileUpload gives the hook for a failed upload
onUploadError(file, errorMsg) ==
    /\ uploadFeedback' = Flash("error", IF errorMsg # "" THEN errorMsg ELSE UnknownUploadError)
    /\ UNCHANGED <<errors, href>>

\* the hook receives the response of a successful upload
uploadSucceeded(r, response) ==
    /\ r \in BagToSet(inflight)
    /\ blocked' = "none"
    /\ r.call = "upload"
    /\ inflight' = inflight (-) SetToBag({r})
    /\ isUploadingGlobal' = FALSE
    /\ onUploadSuccess(r.args.file, response)
    /\ lastResumeId' = response.resume_id
    /\ UNCHANGED <<lastUpload, lastPreview, route, resumeId, formVars, improvedData, activeTab, files>>

\* the hook's upload request fails
uploadFailed(r, errorMsg) ==
    /\ r \in BagToSet(inflight)
    /\ blocked' = "none"
    /\ r.call = "upload"
    /\ inflight' = inflight (-) SetToBag({r})
    /\ isUploadingGlobal' = FALSE
    /\ onUploadError(r.args.file, errorMsg)
    /\ lastResumeId' = NULL
    /\ UNCHANGED <<lastUpload, lastPreview, route, resumeId, formVars, improvedData, activeTab, files>>

\* the remove button of the selected file
handleRemoveFile ==
    /\ route = "resume"
    /\ blocked' = "none"
    /\ currentFile # NULL
    /\ ~isUploadingGlobal
    /\ files' = <<>>
    /\ uploadFeedback' = NULL
    /\ UNCHANGED <<history, route, resumeId, formVars, improvedData, activeTab, errors,
                   isUploadingGlobal, href, inflight>>

(***************************************************************************)
(* The shared context, ResumePreviewProvider and useResumePreview.         *)
(***************************************************************************)
\* the default of createContext(undefined): what useContext gives outside a provider
ResumePreviewContextDefault == [provided |-> FALSE]

\* the value ResumePreviewProvider gives its children
ProviderValue ==
    [provided |-> TRUE, improvedData |-> improvedData, setImprovedData |-> "setImprovedData"]

\* the result of a call: a value returned or an Error thrown
Returned(value) == [returned |-> value]

Thrown(message) == [thrown |-> message]

ProviderMissingMessage == "useResumePreview must be used within ResumePreviewProvider"

\* the hook without its test of the context
useResumePreviewUnchecked(ctx) == Returned(ctx)

\* useResumePreview, given what useContext(ResumePreviewContext) returns
useResumePreview(ctx) ==
    IF ~ctx.provided THEN Thrown(ProviderMissingMessage) ELSE Returned(ctx)

(***************************************************************************)
(* Page loads.                                                             *)
(***************************************************************************)
\* a document is loaded: every component starts from its initial state
PageLoad(page, param) ==
    /\ route' = page
    /\ resumeId' = param
    /\ text' = <<>>
    /\ flash' = NULL
    /\ submissionStatus' = "idle"
    /\ improvementStatus' = "idle"
    /\ jobId' = NULL
    /\ inflight' = EmptyBag
    /\ improvedData' = NULL
    /\ activeTab' = "metrics"
    /\ files' = <<>>
    /\ errors' = <<>>
    /\ isUploadingGlobal' = FALSE
    /\ uploadFeedback' = NULL
    /\ href' = NULL
    /\ blocked' = "none"
    /\ lastUpload' = NULL
    /\ lastPreview' = NULL
    /\ lastResumeId' = NULL

\* the browser follows the assignment to window.location.href
followHref ==
    /\ href # NULL
    /\ PageLoad(IF href.path = "/jobs" THEN "jobs" ELSE "resume",
                SearchParamsGet(href.search, ResumeIdParam))

(***************************************************************************)
(* The dashboard page, DashboardPage.                                      *)
(***************************************************************************)
\* Math.floor in the place of Math.round
MathFloor(num, den) == num \div den

\* Math.round of the fraction num/den: the integer nearest to it, halves up
MathRound(num, den) == (2 * num + den) \div (2 * den)

\* (score ?? 0) * 100, rounded; a score is a number of ScoreDenom-ths
Percent(score) == MathRound((IF score.def THEN score.num ELSE 0) * 100, ScoreDenom)

originalScore == improvedData.data.original_score

newScore == improvedData.data.new_score

originalPct == Percent(originalScore)

newPct == Percent(newScore)

improvementPct == newPct - originalPct

\* the page shows the guidance of the empty state
EmptyStateShown == route = "dashboard" /\ improvedData = NULL

\* the score card is rendered
ScoreCardShown ==
    route = "dashboard" /\ improvedData # NULL /\ originalScore.def /\ newScore.def

\* the ResumeAnalysis card is rendered, and the score it is given
ResumeAnalysisShown == route = "dashboard" /\ improvedData # NULL /\ activeTab = "metrics"

ResumeAnalysisScore == newPct

\* the warning with the clear button is rendered
ClearButtonShown ==
    route = "dashboard" /\ improvedData # NULL /\ (~originalScore.def \/ ~newScore.def)

\* a tab button that also empties the context
setActiveTabClearing(tab) ==
    /\ blocked' = "none"
    /\ route = "dashboard"
    /\ improvedData # NULL
    /\ activeTab' = tab
    /\ improvedData' = NULL
    /\ UNCHANGED <<history, route, resumeId, formVars, inflight, uploadVars>>

\* the two tab buttons
setActiveTab(tab) ==
    /\ route = "dashboard"
    /\ blocked' = "none"
    /\ improvedData # NULL
    /\ activeTab' = tab
    /\ UNCHANGED <<history, route, resumeId, formVars, inflight, improvedData, uploadVars>>

\* the clear button
clearData ==
    /\ ClearButtonShown
    /\ blocked' = "none"
    /\ improvedData' = NULL
    /\ UNCHANGED <<history, route, resumeId, formVars, inflight, activeTab, uploadVars>>

\* the links of the empty state, plain anchors to /resume and to /jobs
followLink(page) ==
    /\ EmptyStateShown
    /\ PageLoad(page, NULL)

(***************************************************************************)
(* The ResumeAnalysis card: the classes chosen for a score.                *)
(***************************************************************************)
getScoreColor(value) ==
    IF value >= 80 THEN "text-green-400"
    ELSE IF value >= 60 THEN "text-yellow-400"
    ELSE "text-red-400"

\* a glow that is green only above 80
getScoreGlowAbove(value) ==
    IF value > 80 THEN "drop-shadow-[0_0_10px_rgba(34,197,94,0.5)]"
    ELSE IF value >= 60 THEN "drop-shadow-[0_0_10px_rgba(251,191,36,0.5)]"
    ELSE "drop-shadow-[0_0_10px_rgba(239,68,68,0.5)]"

getScoreGlow(value) ==
    IF value >= 80 THEN "drop-shadow-[0_0_10px_rgba(34,197,94,0.5)]"
    ELSE IF value >= 60 THEN "drop-shadow-[0_0_10px_rgba(251,191,36,0.5)]"
    ELSE "drop-shadow-[0_0_10px_rgba(239,68,68,0.5)]"

\* the class of the progress bar in the dialog, its colours only
progressBarClass(score) ==
    IF score >= 80 THEN "from-green-500 to-green-400"
    ELSE IF score >= 60 THEN "from-yellow-500 to-yellow-400"
    ELSE "from-red-500 to-red-400"

\* the classes ResumeAnalysis renders for the score it is given
ResumeAnalysisClasses(score) ==
    [text |-> getScoreColor(score), glow |-> getScoreGlow(score),
     bar |-> progressBarClass(score)]

(***************************************************************************)
(* The VectorAnalysis card: the classes and the icon of a similarity score.*)
(* A similarity score is a number of thousandths, so 0.8 is 800; the icons *)
(* of the source are emoji and are named here.                             *)
(***************************************************************************)
getMatchColor(score) ==
    IF score > 800 THEN "text-green-400 bg-green-500/20 border-green-500/30"
    ELSE IF score > 600 THEN "text-blue-400 bg-blue-500/20 border-blue-500/30"
    ELSE IF score > 300 THEN "text-yellow-400 bg-yellow-500/20 border-yellow-500/30"
    ELSE "text-red-400 bg-red-500/20 border-red-500/30"

\* an icon whose bands begin at the thresholds themselves
getMatchIconFrom(score) ==
    IF score >= 800 THEN "direct hit"
    ELSE IF score >= 600 THEN "check mark"
    ELSE IF score >= 300 THEN "high voltage"
    ELSE "cross mark"

getMatchIcon(score) ==
    IF score > 800 THEN "direct hit"
    ELSE IF score > 600 THEN "check mark"
    ELSE IF score > 300 THEN "high voltage"
    ELSE "cross mark"

\* what VectorAnalysis renders for a skill of the analysis
SkillClasses(similarity_score) ==
    [color |-> getMatchColor(similarity_score), icon |-> getMatchIcon(similarity_score)]

\* the VectorAnalysis card is rendered (the responses of the model carry an analysis)
VectorAnalysisShown == route = "dashboard" /\ improvedData # NULL

(***************************************************************************)
(* The specifications.                                                     *)
(***************************************************************************)
\* the pages a user may open, with the resume_id parameters of /jobs
Init ==
    /\ route \in {"resume", "jobs", "dashboard"}
    /\ resumeId \in IF route = "jobs" THEN {NULL, Str(<<>>)} \cup ResumeIds ELSE {NULL}
    /\ text = <<>>
    /\ flash = NULL
    /\ submissionStatus = "idle"
    /\ improvementStatus = "idle"
    /\ jobId = NULL
    /\ inflight = EmptyBag
    /\ improvedData = NULL
    /\ activeTab = "metrics"
    /\ files = <<>>
    /\ errors = <<>>
    /\ isUploadingGlobal = FALSE
    /\ uploadFeedback = NULL
    /\ href = NULL
    /\ blocked = "none"
    /\ lastUpload = NULL
    /\ lastPreview = NULL
    /\ lastResumeId = NULL

\* what a user can do with the rendered pages, and the responses of the backend
Next ==
    \/ \E value \in Texts : handleChange(value)
    \/ SubmitClick
    \/ ImproveClick
    \/ \E r \in BagToSet(inflight), id \in JobIds : handleUploadResolved(r, id)
    \/ \E r \in BagToSet(inflight), message \in ErrorMessages :
           handleUploadRejected(r, message)
    \/ \E r \in BagToSet(inflight), preview \in PreviewSamples :
           handleImproveResolved(r, preview)
    \/ \E r \in BagToSet(inflight), message \in ErrorMessages :
           handleImproveRejected(r, message)
    \/ \E file \in Files : addFiles(file)
    \/ \E r \in BagToSet(inflight), response \in UploadResponses : uploadSucceeded(r, response)
    \/ \E r \in BagToSet(inflight), errorMsg \in UploadErrorMessages : uploadFailed(r, errorMsg)
    \/ handleRemoveFile
    \/ followHref
    \/ \E tab \in {"metrics", "resume"} : setActiveTab(tab)
    \/ clearData
    \/ \E page \in {"resume", "jobs"} : followLink(page)

Spec == Init /\ [][Next]_vars

\* the handlers called in any state of the mounted form, as a test calls them,
\* with one response of each kind
HandlerNext ==
    \/ \E value \in Texts : handleChange(value)
    \/ handleUpload
    \/ handleImprove
    \/ \E r \in BagToSet(inflight) : handleUploadResolved(r, Str(<<"j", "1">>))
    \/ \E r \in BagToSet(inflight) : handleUploadRejected(r, "HTTP 500")
    \/ \E r \in BagToSet(inflight) :
           handleImproveResolved(r, ImprovedResult(Num(1), Num(ScoreDenom)))
    \/ \E r \in BagToSet(inflight) : handleImproveRejected(r, "HTTP 500")

HandlerSpec == Init /\ [][HandlerNext]_vars

\* one job description taken to the dashboard, with every response of improveResume
ScoreNext ==
    \/ handleChange(<<"a">>)
    \/ SubmitClick
    \/ ImproveClick
    \/ \E r \in BagToSet(inflight) : handleUploadResolved(r, Str(<<"j", "1">>))
    \/ \E r \in BagToSet(inflight), preview \in ImprovedResults :
           handleImproveResolved(r, preview)
    \/ \E tab \in {"metrics", "resume"} : setActiveTab(tab)
    \/ clearData

ScoreSpec == Init /\ [][ScoreNext]_vars

\* one resume uploaded and the link to the jobs page followed, with every identifier
UploadNext ==
    \/ \E file \in Files : href = NULL /\ addFiles(file)
    \/ \E r \in BagToSet(inflight), id \in IdStrings :
           uploadSucceeded(r, [resume_id |-> Str(id)])
    \/ handleRemoveFile
    \/ followHref

UploadSpec == Init /\ [][UploadNext]_vars

(***************************************************************************)
(* Properties.                                                             *)
(***************************************************************************)
\* a string holding nothing but white space
OnlyWhiteSpace(s) == \A i \in 1 .. Len(s) : IsWhiteSpace(s[i])

\* the number of requests awaited
InFlightCount == BagCardinality(inflight)

\* C1: a submit whose text is empty or only white space sends no request, sets
\* the error flash for an empty job description and leaves submissionStatus
\* and jobId as they were.
C1_EmptySubmitBlocked ==
    [][(handleUpload /\ OnlyWhiteSpace(text)) =>
           /\ inflight' = inflight
           /\ flash' = Flash("error", EmptyTextMessage)
           /\ submissionStatus' = submissionStatus
           /\ jobId' = jobId]_vars

\* a submit of a text of white space has been blocked
C1_Witness ==
    /\ blocked = "emptyText"
    /\ text # <<>>
    /\ OnlyWhiteSpace(text)
    /\ Truthy(resumeId)
    /\ flash = Flash("error", EmptyTextMessage)
    /\ inflight = EmptyBag

\* C2: under every sequence of typing, submits, improve clicks and responses,
\* at most one request of the form is awaited at any time.
C2_AtMostOneInFlight == route = "jobs" => InFlightCount <= 1

\* the resume_id of an upload response is a string that is not empty
HasResumeId(response) ==
    /\ "str" \in DOMAIN response.resume_id
    /\ Len(response.resume_id.str) > 0

\* C3: a successful upload whose response has no resume_id that is a non-empty
\* string sets the error feedback and assigns nothing to window.location.href.
C3_MissingIdIsAnError ==
    [][\A r \in BagToSet(inflight), response \in UploadResponses :
           (uploadSucceeded(r, response) /\ ~HasResumeId(response)) =>
               /\ uploadFeedback' = Flash("error", MissingIdFeedback)
               /\ href' = href]_vars

\* an upload has succeeded without an identifier: error feedback, no navigation
C3_Witness ==
    /\ route = "resume"
    /\ files # <<>>
    /\ ~isUploadingGlobal
    /\ uploadFeedback = Flash("error", MissingIdFeedback)
    /\ href = NULL

\* the integer nearest to 100 * n / ScoreDenom, a half going up
NearestPercent(n) ==
    CHOOSE p \in 0 .. 100 :
        /\ 2 * ScoreDenom * p - ScoreDenom <= 200 * n
        /\ 200 * n < 2 * ScoreDenom * p + ScoreDenom

\* C4: on the dashboard the percentages shown are round(score * 100) of the
\* scores the backend gave, and ResumeAnalysis is given the same new percentage.
C4_PercentagesAreRounded ==
    (route = "dashboard" /\ improvedData # NULL) =>
        /\ originalScore.def => originalPct = NearestPercent(originalScore.num)
        /\ newScore.def => /\ newPct = NearestPercent(newScore.num)
                           /\ ResumeAnalysisScore = NearestPercent(newScore.num)

\* the score card and the ResumeAnalysis card show scores of 1/8 and 7/8
C4_Witness ==
    /\ ScoreCardShown
    /\ ResumeAnalysisShown
    /\ 8 * originalScore.num = ScoreDenom
    /\ 8 * newScore.num = 7 * ScoreDenom
    /\ originalPct = 13
    /\ ResumeAnalysisScore = 88

\* C5: when uploadJobDescriptions rejects, flash is an error with the error's
\* message and submissionStatus is 'error'; when improveResume rejects, flash is
\* an error with the error's message and improvementStatus is 'error'.
C5_FailureIsFlashed ==
    [][\A r \in BagToSet(inflight), message \in ErrorMessages :
           /\ handleUploadRejected(r, message) =>
                  flash' = Flash("error", message) /\ submissionStatus' = "error"
           /\ handleImproveRejected(r, message) =>
                  flash' = Flash("error", message) /\ improvementStatus' = "error"]_vars

\* both calls have failed, the later one with the message shown
C5_Witness ==
    /\ submissionStatus = "error"
    /\ improvementStatus = "error"
    /\ flash = Flash("error", "Failed to fetch")

\* C6 as stated: a submit with no resume_id sets an error flash and sends no
\* request, and an improve attempt with no job id sets an error flash and sends
\* no request.
C6_MissingIdsAreFlashed ==
    [][/\ (handleUpload /\ ~OnlyWhiteSpace(text) /\ ~Truthy(resumeId)) =>
              (flash' # NULL /\ flash'.type = "error" /\ inflight' = inflight)
       /\ (handleImprove /\ ~Truthy(jobId)) =>
              (flash' # NULL /\ flash'.type = "error" /\ inflight' = inflight)]_vars

\* C6 as amended: a submit with no resume_id sets the error flash for a missing
\* resume id and sends no request; an improve attempt with no job id sends no
\* request and changes no state of the form, the flash included.
C6_MissingIdsSendNothing ==
    [][/\ (handleUpload /\ ~OnlyWhiteSpace(text) /\ ~Truthy(resumeId)) =>
              (flash' = Flash("error", MissingResumeIdMessage) /\ inflight' = inflight)
       /\ (handleImprove /\ ~Truthy(jobId)) =>
              (inflight' = inflight /\ UNCHANGED formVars)]_vars

\* an improve attempt with no job id has returned early
C6_Witness ==
    /\ blocked = "missingJobId"
    /\ jobId = NULL
    /\ Truthy(resumeId)
    /\ inflight = EmptyBag
    /\ improvementStatus = "idle"

\* C7: the upload is configured with a limit of 2 * 1024 * 1024 bytes, the
\* accepted types and single-file mode, and no upload request is made for a
\* file above the limit or of another type.
C7_InvalidFileNotUploaded ==
    /\ FileUploadOptions.maxSize = 2097152
    /\ AcceptedTypes(FileUploadOptions.accept) = {PdfType, DocxType}
    /\ ~FileUploadOptions.multiple
    /\ Len(files) <= 1
    /\ \A r \in BagToSet(inflight) :
           r.call = "upload" =>
               r.args.file.size <= 2097152 /\ r.args.file.type \in {PdfType, DocxType}
    /\ \A i \in 1 .. Len(files) :
           files[i].size <= 2097152 /\ files[i].type \in {PdfType, DocxType}

\* a file was refused by the validation and nothing is being uploaded
C7_Witness ==
    /\ route = "resume"
    /\ errors # <<>>
    /\ files = <<>>
    /\ inflight = EmptyBag
    /\ ~isUploadingGlobal

\* C8: a file of a format the upload page names as supported (PDF, DOC, DOCX)
\* and within 2 MB is accepted by the upload control.
C8_SupportedFormatsAccepted ==
    [][\A file \in Files :
           (addFiles(file) /\ file.type \in SupportedFormats
                           /\ file.size <= SupportedMaxSize) =>
               (errors' = <<>> /\ files' = <<file>>)]_vars

\* a response of the form is handled
FormResponseStep ==
    \E r \in BagToSet(inflight) :
        \/ \E id \in JobIds : handleUploadResolved(r, id)
        \/ \E preview \in PreviewSamples : handleImproveResolved(r, preview)
        \/ \E message \in ErrorMessages :
               handleUploadRejected(r, message) \/ handleImproveRejected(r, message)

\* C9: a step that issues a request issues one, and is one submit or one
\* improve click (or one file given to the upload control); handling a
\* response, a failure included, issues none.
C9_NoRetry ==
    [][/\ InFlightCount' > InFlightCount =>
              /\ InFlightCount' = InFlightCount + 1
              /\ SubmitClick \/ ImproveClick \/ \E file \in Files : addFiles(file)
       /\ FormResponseStep => InFlightCount' = InFlightCount - 1]_vars

\* a request has failed and none is awaited
C9_Witness ==
    /\ route = "jobs"
    /\ submissionStatus = "error"
    /\ flash # NULL
    /\ flash.message \in ErrorMessages
    /\ inflight = EmptyBag

\* C10: improvedData changes only when handleImprove receives a response of
\* improveResume, to that response, or when the clear button is pressed, to null.
C10_ContextWriters ==
    [][improvedData' # improvedData =>
           \/ \E r \in BagToSet(inflight), preview \in PreviewSamples :
                  /\ r.call = "improveResume"
                  /\ handleImproveResolved(r, preview)
                  /\ improvedData' = preview
           \/ ClearButtonShown /\ clearData /\ improvedData' = NULL]_vars

\* the context was set by a response, shown on both tabs, and then cleared
C10_Witness ==
    /\ route = "dashboard"
    /\ activeTab = "resume"
    /\ improvementStatus = "improving"
    /\ improvedData = NULL

\* C11: the request a submit sends carries the resume_id of the query, and the
\* request an improve click sends carries the resume_id of the query and the id
\* the latest successful uploadJobDescriptions returned; no request carries an
\* identifier of another origin.
C11_IdentifiersEchoed ==
    [][/\ (SubmitClick /\ inflight' # inflight) =>
              /\ Truthy(resumeId)
              /\ inflight' = inflight (+) SetToBag({Request("uploadJobDescriptions",
                     [job_descriptions |-> <<Trim(text)>>, resume_id |-> resumeId])})
       /\ (ImproveClick /\ inflight' # inflight) =>
              /\ lastUpload # NULL
              /\ lastUpload.response \in JobIds
              /\ lastUpload.request.args.resume_id = resumeId
              /\ inflight' = inflight (+) SetToBag({Request("improveResume",
                     [resume_id |-> resumeId, job_id |-> lastUpload.response])})]_vars

\* improveResume is awaited with the resume id of the link and the second job id
C11_Witness ==
    /\ resumeId = Str(<<"&", "+">>)
    /\ lastUpload # NULL
    /\ lastUpload.response = Str(<<"j", "2">>)
    /\ Request("improveResume", [resume_id |-> Str(<<"&", "+">>),
                                 job_id |-> Str(<<"j", "2">>)]) \in BagToSet(inflight)

\* what the dashboard renders when it holds a result
ResultsShown == ScoreCardShown \/ ClearButtonShown

\* C12 as stated: improvedData is null from the mount of the provider until a
\* response of improveResume, equals the latest response from then on, and the
\* dashboard shows the empty state exactly when it is null.
C12_ContextIsLatestResult ==
    /\ improvedData = lastPreview
    /\ route = "dashboard" => (EmptyStateShown <=> improvedData = NULL)

\* C12 as amended: improvedData is null from the mount until a response, and is
\* the latest response from then on unless the clear button of the dashboard
\* has set it back to null; the dashboard shows the empty state, and none of the
\* results, exactly when it is null.
C12_ContextIsLatestOrCleared ==
    /\ [](/\ improvedData \in {NULL, lastPreview}
          /\ route = "dashboard" =>
                 /\ EmptyStateShown <=> improvedData = NULL
                 /\ EmptyStateShown <=> ~ResultsShown)
    /\ [][(improvedData = lastPreview /\ improvedData' # lastPreview') =>
              (ClearButtonShown /\ clearData)]_vars

\* a response was shown and then cleared: the empty state with a latest response
C12_Witness ==
    /\ EmptyStateShown
    /\ lastPreview # NULL
    /\ improvedData = NULL
    /\ inflight = EmptyBag

\* C13: outside a ResumePreviewProvider useResumePreview throws the Error
\* 'useResumePreview must be used within ResumePreviewProvider'; inside one it
\* returns the provider's improvedData and setter and does not throw.
C13_HookNeedsProvider ==
    /\ useResumePreview(ResumePreviewContextDefault) =
           Thrown("useResumePreview must be used within ResumePreviewProvider")
    /\ "thrown" \notin DOMAIN useResumePreview(ProviderValue)
    /\ useResumePreview(ProviderValue).returned.improvedData = improvedData
    /\ useResumePreview(ProviderValue).returned.setImprovedData = "setImprovedData"

\* inside the provider the hook returns a result held by the context
C13_Witness ==
    /\ route = "dashboard"
    /\ improvedData \in PreviewSamples
    /\ useResumePreview(ProviderValue) = Returned(ProviderValue)
    /\ "thrown" \in DOMAIN useResumePreview(ResumePreviewContextDefault)

\* C14: the page changes to the dashboard only in the step that handles a
\* successful response of improveResume, and in that step the context is set
\* to the response; when improveResume fails the page and the context stay.
C14_NavigationAfterSuccess ==
    [][/\ (route' = "dashboard" /\ route # "dashboard") =>
              \E r \in BagToSet(inflight), preview \in PreviewSamples :
                  /\ r.call = "improveResume"
                  /\ handleImproveResolved(r, preview)
                  /\ improvedData' = preview
       /\ \A r \in BagToSet(inflight), message \in ErrorMessages :
              handleImproveRejected(r, message) =>
                  (route' = route /\ improvedData' = improvedData)]_vars

\* the form has navigated to the dashboard with the response in the context
C14_Witness ==
    /\ route = "dashboard"
    /\ lastUpload # NULL
    /\ lastPreview \in PreviewSamples
    /\ improvedData = lastPreview
    /\ activeTab = "metrics"

\* C15: whenever the improve button is offered, jobId is the id the backend
\* returned for the trimmed text that is in the textarea.
C15_JobIdMatchesText ==
    (route = "jobs" /\ ImproveButtonRendered) =>
        /\ lastUpload # NULL
        /\ jobId = lastUpload.response
        /\ lastUpload.request.args.job_descriptions = <<Trim(text)>>

\* C16: jobId is null until an uploadJobDescriptions has resolved and is then
\* the id of the latest one that resolved, and an improveResume is awaited, or
\* has been answered, only after an uploadJobDescriptions has resolved.
C16_ImproveAfterUpload ==
    /\ jobId = IF lastUpload = NULL THEN NULL ELSE lastUpload.response
    /\ \A r \in BagToSet(inflight) : r.call = "improveResume" => lastUpload # NULL
    /\ lastPreview # NULL => lastUpload # NULL

\* handleImprove has sent improveResume for the job id of a resolved upload
C16_Witness ==
    /\ route = "jobs"
    /\ blocked = "none"
    /\ lastUpload # NULL
    /\ improvementStatus = "improving"
    /\ \E r \in BagToSet(inflight) :
           r.call = "improveResume" /\ r.args.job_id = lastUpload.response

\* an improveResume is awaited
ImproveInFlight == \E r \in BagToSet(inflight) : r.call = "improveResume"

\* C17 as stated: in every state with no improveResume awaited, improvementStatus
\* is 'idle' or 'error' and the improve button is not disabled.
C17_ImprovingOnlyInFlight ==
    ~ImproveInFlight =>
        (improvementStatus \in {"idle", "error"} /\ ~ImproveButtonDisabled)

\* C17 as amended: improvementStatus is 'improving' only while an improveResume
\* is awaited or after one has succeeded and the form has navigated to the
\* dashboard; as long as the jobs page is the one shown and none is awaited, it
\* is 'idle' or 'error' and the improve button is not disabled.
C17_ImprovingUntilFailure ==
    /\ improvementStatus = "improving" =>
           (ImproveInFlight \/ (route = "dashboard" /\ lastPreview # NULL))
    /\ (route = "jobs" /\ ~ImproveInFlight) =>
           (improvementStatus \in {"idle", "error"} /\ ~ImproveButtonDisabled)

\* improveResume has succeeded: nothing is awaited and the status is 'improving'
C17_Witness ==
    /\ route = "dashboard"
    /\ improvementStatus = "improving"
    /\ ImproveButtonDisabled
    /\ inflight = EmptyBag
    /\ lastPreview # NULL
    /\ improvedData = lastPreview

\* C18: a change of the textarea sets text to the new value, flash to null and
\* submissionStatus to 'idle'; jobId, improvementStatus and the requests
\* awaited stay as they were.
C18_ChangeFrame ==
    [][\A value \in Texts :
           handleChange(value) =>
               /\ text' = value
               /\ flash' = NULL
               /\ submissionStatus' = "idle"
               /\ jobId' = jobId
               /\ improvementStatus' = improvementStatus
               /\ inflight' = inflight]_vars

\* the text was changed after a submit succeeded and an improve failed
C18_Witness ==
    /\ route = "jobs"
    /\ text = <<"a", " ">>
    /\ flash = NULL
    /\ submissionStatus = "idle"
    /\ jobId = Str(<<"j", "1">>)
    /\ improvementStatus = "error"
    /\ inflight # EmptyBag

\* the step in which the hook receives the response of an upload
UploadAnswered ==
    /\ isUploadingGlobal /\ ~isUploadingGlobal'
    /\ lastResumeId' # NULL
    /\ \E r \in BagToSet(inflight) : r.call = "upload" /\ inflight' = inflight (-) SetToBag({r})

\* C19: a successful upload whose response has a non-empty string resume_id
\* sets the success feedback, empties the hook's errors and assigns
\* /jobs?resume_id=<encodeURIComponent(resume_id)> to window.location.href; the
\* resume_id the jobs page then reads from its query is the one of the response.
C19_ResumeIdRoundTrip ==
    [][/\ (UploadAnswered /\ HasResumeId([resume_id |-> lastResumeId'])) =>
              /\ uploadFeedback' = Flash("success", UploadSuccessFeedback)
              /\ errors' = <<>>
              /\ href' = Url("/jobs", ResumeIdParam \o <<"=">> \o
                                      encodeURIComponent(lastResumeId'.str))
       /\ followHref => (route' = "jobs" /\ resumeId' = lastResumeId)]_vars

\* the jobs page has read an identifier that looks like an escape sequence
C19_Witness ==
    /\ route = "jobs"
    /\ resumeId = Str(<<"%", "2", "B">>)
    /\ href = NULL
    /\ lastResumeId = NULL

\* the classes of each colour: the text, the glow and the bar
GreenClasses ==
    [text |-> "text-green-400", glow |-> "drop-shadow-[0_0_10px_rgba(34,197,94,0.5)]",
     bar |-> "from-green-500 to-green-400"]

YellowClasses ==
    [text |-> "text-yellow-400", glow |-> "drop-shadow-[0_0_10px_rgba(251,191,36,0.5)]",
     bar |-> "from-yellow-500 to-yellow-400"]

RedClasses ==
    [text |-> "text-red-400", glow |-> "drop-shadow-[0_0_10px_rgba(239,68,68,0.5)]",
     bar |-> "from-red-500 to-red-400"]

\* the percentages a score can be shown as, and one beyond each end
PercentRange == -1 .. 101

\* the bands of the claim that hold a score
BandsOf(score) ==
    (IF score >= 80 THEN {"green"} ELSE {})
        \cup (IF 60 <= score /\ score < 80 THEN {"yellow"} ELSE {})
        \cup (IF score < 60 THEN {"red"} ELSE {})

\* C20: for every score the text colour, the glow and the bar colour of
\* ResumeAnalysis are of one band: green from 80, yellow from 60 to below 80,
\* red below 60, each score being in one band only; so for the score shown.
C20_BandsAgree ==
    /\ \A score \in PercentRange :
           /\ Cardinality(BandsOf(score)) = 1
           /\ "green" \in BandsOf(score) => ResumeAnalysisClasses(score) = GreenClasses
           /\ "yellow" \in BandsOf(score) => ResumeAnalysisClasses(score) = YellowClasses
           /\ "red" \in BandsOf(score) => ResumeAnalysisClasses(score) = RedClasses
    /\ ResumeAnalysisShown =>
           ResumeAnalysisClasses(ResumeAnalysisScore) \in
               {GreenClasses, YellowClasses, RedClasses}

\* the card shows a score of 63 in yellow
C20_Witness ==
    /\ ResumeAnalysisShown
    /\ ResumeAnalysisScore = 63
    /\ ResumeAnalysisClasses(ResumeAnalysisScore) = YellowClasses

\* the colour and the icon of each band of similarity
HighMatch ==
    [color |-> "text-green-400 bg-green-500/20 border-green-500/30", icon |-> "direct hit"]

GoodMatch ==
    [color |-> "text-blue-400 bg-blue-500/20 border-blue-500/30", icon |-> "check mark"]

PartialMatch ==
    [color |-> "text-yellow-400 bg-yellow-500/20 border-yellow-500/30",
     icon |-> "high voltage"]

NoMatch ==
    [color |-> "text-red-400 bg-red-500/20 border-red-500/30", icon |-> "cross mark"]

\* the similarity scores from 0 to 1 in thousandths, and some beyond each end
SimilarityRange == -10 .. 1010

\* the bands of the claim that hold a similarity score
MatchBandsOf(score) ==
    (IF score > 800 THEN {"high"} ELSE {})
        \cup (IF 600 < score /\ score <= 800 THEN {"good"} ELSE {})
        \cup (IF 300 < score /\ score <= 600 THEN {"partial"} ELSE {})
        \cup (IF score <= 300 THEN {"none"} ELSE {})

\* C21: whenever the VectorAnalysis card is rendered, getMatchColor and
\* getMatchIcon put every similarity score a skill may have into the same one of
\* four bands, above 0.8, above 0.6 up to 0.8, above 0.3 up to 0.6, and up to
\* 0.3, so the icon and the colour of a skill are of one band.
C21_MatchBandsAgree ==
    VectorAnalysisShown =>
        \A score \in SimilarityRange :
            /\ Cardinality(MatchBandsOf(score)) = 1
            /\ "high" \in MatchBandsOf(score) => SkillClasses(score) = HighMatch
            /\ "good" \in MatchBandsOf(score) => SkillClasses(score) = GoodMatch
            /\ "partial" \in MatchBandsOf(score) => SkillClasses(score) = PartialMatch
            /\ "none" \in MatchBandsOf(score) => SkillClasses(score) = NoMatch

\* the card is rendered, and the scores at and next to a threshold are classified
C21_Witness ==
    /\ VectorAnalysisShown
    /\ SkillClasses(800) = GoodMatch
    /\ SkillClasses(801) = HighMatch
    /\ SkillClasses(300) = NoMatch
    /\ SkillClasses(301) = PartialMatch

====
